---- MODULE Spec2Model ----
(***************************************************************************)
(* Dependency graph builder of the DependencyVisualizer (src/main.py).    *)
(*                                                                         *)
(* A package name is a sequence of one-character strings, so that the      *)
(* filter test `filter_substring in package_name` is a real substring      *)
(* test.  The dependency source (test file or repository index) is a      *)
(* function from package names to the ordered list of direct dependency    *)
(* names.  The recursion of build_dependency_graph_dfs is an explicit      *)
(* stack of frames; one frame per active call.                             *)
(***************************************************************************)
EXTENDS Integers, Sequences, FiniteSets, TLC

VARIABLES
    source,                    \* package -> ordered direct dependencies
    config,                    \* [package, filter_substring, test_mode]
    visited_packages,          \* self.visited_packages
    dependency_graph,          \* self.dependency_graph      (ForwardGraph)
    reverse_dependency_graph,  \* self.reverse_dependency_graph
    stack,                     \* active calls of build_dependency_graph_dfs
    all_dependencies,          \* value returned to run_stage3
    cycle_log,                 \* cycle paths printed, in order
    filter_log,                \* packages reported as filtered, in order
    fetch_log,                 \* packages passed to the source, in order
    reverse_deps,              \* result of the last reverse lookup
    error,                     \* package whose fetch raised, else NoError
    output,                    \* lines printed by print_dependency_graph
    pc                         \* "start" | "build" | "done" | "looked"

vars == <<source, config, visited_packages, dependency_graph,
          reverse_dependency_graph, stack, all_dependencies, cycle_log,
          filter_log, fetch_log, reverse_deps, error, output, pc>>

----------------------------------------------------------------------------
(* Bounds and input universes *)

MaxDeps == 2

\* nesting of renderer calls after which a rendering is cut off
MaxRenderDepth == 6

A == <<"A">>
B == <<"B">>
C == <<"C">>
R == <<"R">>
X == <<"X">>
Y == <<"Y">>
D == <<"D">>
LibX == <<"l", "X">>

NoFilter == <<>>

NoError == <<>>

\* three-name universes carry every source; the four-name universe carries
\* the acyclic sources whose edges go forward in the order A, B, C, D
Universes == { {A, B, C}, {R, X, Y}, {R, LibX, Y}, {A, B, C, D} }

FilterCandidates == { <<"X">>, <<"l", "X">>, <<"X", "l">> }

SetOf(seq) == { seq[i] : i \in 1..Len(seq) }

\* the string `part` is a contiguous part of the string `name`
HasPart(name, part) ==
    \E i \in 1..(Len(name) + 1), j \in 0..Len(name) :
        SubSeq(name, i, j) = part

DepLists(U) ==
    { s \in UNION { [1..n -> U] : n \in 0..MaxDeps } :
        \A i, j \in 1..Len(s) : i # j => s[i] # s[j] }

----------------------------------------------------------------------------
(* Helpers of the builder *)

\* the substring test taken for an equality test
Contains_Equal(sub, s) == sub = s

\* Python `sub in s` on strings
Contains(sub, s) ==
    \E k \in 0..(Len(s) - Len(sub)) : SubSeq(s, k + 1, k + Len(sub)) = sub

\* `filter_substring and filter_substring in package_name`
IsFiltered(package_name, filter_substring) ==
    filter_substring # <<>> /\ Contains(filter_substring, package_name)

\* get_test_dependencies: the list of the first matching record, else []
DirectDependencies(src, package_name) ==
    IF package_name \in DOMAIN src THEN src[package_name] ELSE <<>>

\* d[k] = v on a dict
Put(d, k, v) == [q \in DOMAIN d \cup {k} |-> IF q = k THEN v ELSE d[q]]

\* the dependent added only where the set is created
RecordReverse_CreateOnly(rg, dependencies, package_name) ==
    [d \in DOMAIN rg \cup SetOf(dependencies) |->
        IF d \in DOMAIN rg THEN rg[d] ELSE {package_name}]

\* the edge recorded the wrong way round
RecordReverse_Swapped(rg, dependencies, package_name) ==
    [d \in DOMAIN rg \cup
            (IF dependencies # <<>> THEN {package_name} ELSE {}) |->
        (IF d \in DOMAIN rg THEN rg[d] ELSE {})
        \cup (IF d = package_name THEN SetOf(dependencies) ELSE {})]

\* for dep in dependencies: reverse_dependency_graph[dep].add(package_name)
RecordReverse(rg, dependencies, package_name) ==
    [d \in DOMAIN rg \cup SetOf(dependencies) |->
        (IF d \in DOMAIN rg THEN rg[d] ELSE {})
        \cup (IF d \in SetOf(dependencies) THEN {package_name} ELSE {})]

EmptyDict == <<>>

Sources(U) ==
    IF U = {A, B, C, D}
    THEN { [p \in U |-> IF p = A THEN a ELSE IF p = B THEN b
                        ELSE IF p = C THEN c ELSE <<>>] :
             a \in DepLists({B, C, D}), b \in DepLists({C, D}),
             c \in DepLists({D}) }
    ELSE [U -> DepLists(U)]

\* the running set started empty
InitialAll_Empty(dependencies) == {}

\* all_dependencies = set(dependencies) before the recursion loop
InitialAll(dependencies) == SetOf(dependencies)

\* the cache test placed before the cycle test
EntryCase_CacheFirst(package_name, current_path, filter_substring, dg) ==
    IF package_name \in DOMAIN dg THEN "cached"
    ELSE IF package_name \in SetOf(current_path) THEN "cycle"
    ELSE IF IsFiltered(package_name, filter_substring) THEN "filtered"
    ELSE "fetch"

\* the filter test left out
EntryCase_NoFilter(package_name, current_path, filter_substring, dg) ==
    IF package_name \in SetOf(current_path) THEN "cycle"
    ELSE IF package_name \in DOMAIN dg THEN "cached"
    ELSE "fetch"

\* the cycle test and the cache test left out
EntryCase_FilterOnly(package_name, current_path, filter_substring, dg) ==
    IF IsFiltered(package_name, filter_substring) THEN "filtered"
    ELSE "fetch"

\* the three early returns of build_dependency_graph_dfs, in order
EntryCase(package_name, current_path, filter_substring, dg) ==
    IF package_name \in SetOf(current_path) THEN "cycle"
    ELSE IF IsFiltered(package_name, filter_substring) THEN "filtered"
    ELSE IF package_name \in DOMAIN dg THEN "cached"
    ELSE "fetch"

\* the filters tried on a universe: none, and those that hit a name of it
Filters(U) ==
    {NoFilter} \cup { f \in FilterCandidates : \E n \in U : HasPart(n, f) }

----------------------------------------------------------------------------
Init ==
    /\ \E U \in Universes :
          /\ source \in Sources(U)
          /\ config \in [package : U, filter_substring : Filters(U),
                         test_mode : {TRUE}, ascii_tree : BOOLEAN]
    /\ visited_packages = {}
    /\ dependency_graph = EmptyDict
    /\ reverse_dependency_graph = EmptyDict
    /\ stack = <<>>
    /\ all_dependencies = {}
    /\ cycle_log = <<>>
    /\ filter_log = <<>>
    /\ fetch_log = <<>>
    /\ reverse_deps = {}
    /\ error = NoError
    /\ output = <<>>
    /\ pc = "start"

Top == stack[Len(stack)]

Frame(package_name, current_path) ==
    [package_name |-> package_name, current_path |-> current_path,
     dependencies |-> <<>>, i |-> 0, all_dependencies |-> {},
     at |-> "enter"]

\* run_stage3: reset the builder state and call the builder on the root
run_stage3 ==
    /\ pc = "start"
    /\ visited_packages' = {}
    /\ dependency_graph' = EmptyDict
    /\ reverse_dependency_graph' = EmptyDict
    /\ stack' = <<Frame(config.package, <<>>)>>
    /\ pc' = "build"
    /\ UNCHANGED <<source, config, all_dependencies, cycle_log, filter_log,
                   fetch_log, reverse_deps, error, output>>

\* the returned set dropped by the caller
Return_NoUpdate(result) ==
    IF Len(stack) = 1
    THEN /\ stack' = <<>>
         /\ all_dependencies' = result
         /\ pc' = "done"
    ELSE /\ stack' = [SubSeq(stack, 1, Len(stack) - 1) EXCEPT
                ![Len(stack) - 1].i = @ + 1]
         /\ UNCHANGED <<all_dependencies, pc>>

\* the caller taking the visited set for the returned set
Return_Visited(result) ==
    IF Len(stack) = 1
    THEN /\ stack' = <<>>
         /\ all_dependencies' = result
         /\ pc' = "done"
    ELSE /\ stack' = [SubSeq(stack, 1, Len(stack) - 1) EXCEPT
                ![Len(stack) - 1].all_dependencies =
                    @ \cup visited_packages,
                ![Len(stack) - 1].i = @ + 1]
         /\ UNCHANGED <<all_dependencies, pc>>

\* `return result` of the top call: the caller's loop body continues with
\* all_dependencies.update(result); the top-level caller is run_stage3
Return(result) ==
    IF Len(stack) = 1
    THEN /\ stack' = <<>>
         /\ all_dependencies' = result
         /\ pc' = "done"
    ELSE /\ stack' = [SubSeq(stack, 1, Len(stack) - 1) EXCEPT
                ![Len(stack) - 1].all_dependencies = @ \cup result,
                ![Len(stack) - 1].i = @ + 1]
         /\ UNCHANGED <<all_dependencies, pc>>

\* the head of build_dependency_graph_dfs up to the recursion loop
Enter ==
    /\ pc = "build"
    /\ stack # <<>>
    /\ Top.at = "enter"
    /\ LET package_name == Top.package_name
           current_path == Top.current_path
           case == EntryCase(package_name, current_path,
                             config.filter_substring, dependency_graph)
       IN  IF case = "cycle"
           THEN /\ cycle_log' = Append(cycle_log,
                                       Append(current_path, package_name))
                /\ Return({})
                /\ UNCHANGED <<visited_packages, dependency_graph,
                               reverse_dependency_graph, filter_log,
                               fetch_log>>
           ELSE IF case = "filtered"
           THEN /\ filter_log' = Append(filter_log, package_name)
                /\ Return({})
                /\ UNCHANGED <<visited_packages, dependency_graph,
                               reverse_dependency_graph, cycle_log,
                               fetch_log>>
           ELSE IF case = "cached"
           THEN /\ Return(dependency_graph[package_name])
                /\ UNCHANGED <<visited_packages, dependency_graph,
                               reverse_dependency_graph, cycle_log,
                               filter_log, fetch_log>>
           ELSE LET dependencies == DirectDependencies(source, package_name)
                IN  /\ fetch_log' = Append(fetch_log, package_name)
                    /\ dependency_graph' =
                          Put(dependency_graph, package_name,
                              SetOf(dependencies))
                    /\ reverse_dependency_graph' =
                          RecordReverse(reverse_dependency_graph,
                                        dependencies, package_name)
                    /\ stack' = [stack EXCEPT ![Len(stack)] =
                          [@ EXCEPT !.dependencies = dependencies,
                                    !.i = 1,
                                    !.all_dependencies =
                                        InitialAll(dependencies),
                                    !.at = "loop"]]
                    /\ UNCHANGED <<visited_packages, all_dependencies,
                                   cycle_log, filter_log, pc>>
    /\ UNCHANGED <<source, config, reverse_deps, error, output>>

\* the error of the source caught in the builder and taken for "no
\* dependencies": the build goes on
SourceFails_Swallowed ==
    /\ pc = "build"
    /\ stack # <<>>
    /\ Top.at = "enter"
    /\ EntryCase(Top.package_name, Top.current_path,
                 config.filter_substring, dependency_graph) = "fetch"
    /\ fetch_log' = Append(fetch_log, Top.package_name)
    /\ error' = Top.package_name
    /\ dependency_graph' = Put(dependency_graph, Top.package_name, {})
    /\ stack' = [stack EXCEPT ![Len(stack)] =
                    [@ EXCEPT !.i = 1, !.at = "loop"]]
    /\ UNCHANGED <<source, config, visited_packages,
                   reverse_dependency_graph, all_dependencies, cycle_log,
                   filter_log, reverse_deps, output, pc>>

\* the call of the source raises ValueError: nothing in the builder or in
\* run_stage3 catches it, every active call is left, and run() prints the
\* error and exits
SourceFails ==
    /\ pc = "build"
    /\ stack # <<>>
    /\ Top.at = "enter"
    /\ EntryCase(Top.package_name, Top.current_path,
                 config.filter_substring, dependency_graph) = "fetch"
    /\ fetch_log' = Append(fetch_log, Top.package_name)
    /\ error' = Top.package_name
    /\ stack' = <<>>
    /\ pc' = "failed"
    /\ UNCHANGED <<source, config, visited_packages, dependency_graph,
                   reverse_dependency_graph, all_dependencies, cycle_log,
                   filter_log, reverse_deps, output>>

\* loop body, `dep not in self.visited_packages`: mark and recurse
Recurse ==
    /\ pc = "build"
    /\ stack # <<>>
    /\ Top.at = "loop"
    /\ Top.i <= Len(Top.dependencies)
    /\ LET dep == Top.dependencies[Top.i]
           new_path == Append(Top.current_path, Top.package_name)
       IN  /\ dep \notin visited_packages
           /\ visited_packages' = visited_packages \cup {dep}
           /\ stack' = Append(stack, Frame(dep, new_path))
    /\ UNCHANGED <<source, config, dependency_graph,
                   reverse_dependency_graph, all_dependencies, cycle_log,
                   filter_log, fetch_log, reverse_deps, error, output, pc>>

\* the loop not moving on from a visited dep
Skip_Stuck ==
    /\ pc = "build"
    /\ stack # <<>>
    /\ Top.at = "loop"
    /\ Top.i <= Len(Top.dependencies)
    /\ Top.dependencies[Top.i] \in visited_packages
    /\ UNCHANGED vars

\* loop body, dep already visited: nothing happens, next dep
Skip ==
    /\ pc = "build"
    /\ stack # <<>>
    /\ Top.at = "loop"
    /\ Top.i <= Len(Top.dependencies)
    /\ Top.dependencies[Top.i] \in visited_packages
    /\ stack' = [stack EXCEPT ![Len(stack)].i = @ + 1]
    /\ UNCHANGED <<source, config, visited_packages, dependency_graph,
                   reverse_dependency_graph, all_dependencies, cycle_log,
                   filter_log, fetch_log, reverse_deps, error, output, pc>>

\* after the loop: store the accumulated set and return it
Finish ==
    /\ pc = "build"
    /\ stack # <<>>
    /\ Top.at = "loop"
    /\ Top.i > Len(Top.dependencies)
    /\ dependency_graph' =
          Put(dependency_graph, Top.package_name, Top.all_dependencies)
    /\ Return(Top.all_dependencies)
    /\ UNCHANGED <<source, config, visited_packages,
                   reverse_dependency_graph, cycle_log, filter_log,
                   fetch_log, reverse_deps, error, output>>


----------------------------------------------------------------------------
(* Tree renderer.  A printed line is a sequence of characters; the box    *)
(* drawing and Cyrillic characters of the program are written as named     *)
(* tokens, one token per character.  Each line also records which package  *)
(* it shows, the downward path of expanded packages above it, the nesting  *)
(* level of the call that printed it, and for the ASCII style the is_last  *)
(* flags of the packages from the root's child down to it.                 *)

BoxUpRight == "BOX_UP_RIGHT"
BoxVerticalRight == "BOX_VERTICAL_RIGHT"
BoxVertical == "BOX_VERTICAL"
BoxHorizontal == "BOX_HORIZONTAL"

\* "└── ", "├── ", "│   ", "    "
Elbow == <<BoxUpRight, BoxHorizontal, BoxHorizontal, " ">>
Tee == <<BoxVerticalRight, BoxHorizontal, BoxHorizontal, " ">>
Pipe == <<BoxVertical, " ", " ", " ">>
Blank == <<" ", " ", " ", " ">>

\* " (уже показан)" and " (цикл)"
AlreadyShown ==
    <<" ", "(", "CYR_U", "CYR_ZHE", "CYR_IE", " ", "CYR_PE", "CYR_O",
      "CYR_KA", "CYR_A", "CYR_ZE", "CYR_A", "CYR_EN", ")">>
CycleNote == <<" ", "(", "CYR_TSE", "CYR_I", "CYR_KA", "CYR_EL", ")">>

\* "  " * n
Indent(n) == [k \in 1..(2 * n) |-> " "]

\* the characters of the names, in code point order
CodeOrder == <<"A", "B", "C", "D", "R", "X", "Y", "l">>

CodePoint(c) == CHOOSE k \in 1..Len(CodeOrder) : CodeOrder[k] = c

\* Python's `<` on strings
StrLess(a, b) ==
    \E k \in 1..(Len(b)) :
        /\ \A j \in 1..(k - 1) : j <= Len(a) /\ a[j] = b[j]
        /\ \/ k = Len(a) + 1
           \/ k <= Len(a) /\ CodePoint(a[k]) < CodePoint(b[k])

\* sorted(dependencies)
RECURSIVE Sorted(_)
Sorted(S) ==
    IF S = {} THEN <<>>
    ELSE LET m == CHOOSE x \in S : \A y \in S \ {x} : StrLess(x, y)
         IN  <<m>> \o Sorted(S \ {m})

\* dependency_graph.get(package_name, set())
GetOrEmpty(g, package_name) ==
    IF package_name \in DOMAIN g THEN g[package_name] ELSE {}

\* the mark left out
MarkShown_Missing(visited, package_name) == visited

\* visited.add(package_name)
MarkShown(visited, package_name) == visited \cup {package_name}

Line(text, name, path, level, note, lasts) ==
    [text |-> text, name |-> name, path |-> path, level |-> level,
     note |-> note, lasts |-> lasts]

CutLine(name, path, level) == Line(<<>>, name, path, level, "cut", <<>>)

RECURSIVE PrintSimpleList(_, _, _, _, _, _, _)
RECURSIVE SimpleListLoop(_, _, _, _, _, _, _, _)

\* _print_simple_list; path, level and fuel are not in the program
PrintSimpleList(g, package_name, indent, visited, path, level, fuel) ==
    IF fuel = 0
    THEN <<CutLine(package_name, path, level)>>
    ELSE IF package_name \in visited
    THEN <<Line(Indent(indent) \o Elbow \o package_name \o AlreadyShown,
                package_name, path, level, "shown", <<>>)>>
    ELSE LET shown == MarkShown(visited, package_name)
             dependencies == GetOrEmpty(g, package_name)
             head == IF indent = 0
                     THEN <<Line(package_name, package_name, path, level,
                                 "", <<>>)>>
                     ELSE <<>>
         IN  head \o SimpleListLoop(g, Sorted(dependencies), 1, indent,
                                    shown, Append(path, package_name),
                                    level, fuel)

\* for dep in sorted(dependencies), from the k-th dep on
SimpleListLoop(g, deps, k, indent, shown, path, level, fuel) ==
    IF k > Len(deps)
    THEN <<>>
    ELSE LET dep == deps[k]
         IN  <<Line(Indent(indent + 1) \o Elbow \o dep, dep, path, level,
                    "", <<>>)>>
             \o (IF dep \in DOMAIN g /\ g[dep] # {}
                 THEN PrintSimpleList(g, dep, indent + 2, shown, path,
                                      level + 1, fuel - 1)
                 ELSE <<>>)
             \o SimpleListLoop(g, deps, k + 1, indent, shown, path, level,
                               fuel)

RECURSIVE PrintAsciiTree(_, _, _, _, _, _, _, _, _)
RECURSIVE AsciiTreeLoop(_, _, _, _, _, _, _, _, _)

\* _print_ascii_tree; `pending` is what print(..., end="") of the caller
\* left on the current line; path, lasts, level, fuel are not in the program
PrintAsciiTree(g, package_name, visited, prefix, pending, path, lasts, level, fuel) ==
    IF fuel = 0
    THEN <<CutLine(package_name, path, level)>>
    ELSE IF package_name \in visited
    THEN <<Line(pending \o prefix \o Elbow \o package_name \o CycleNote,
                package_name, path, level, "cycle", lasts)>>
    ELSE LET shown == MarkShown(visited, package_name)
             dependencies == GetOrEmpty(g, package_name)
         IN  <<Line(pending \o prefix \o package_name, package_name, path,
                    level, "", lasts)>>
             \o AsciiTreeLoop(g, Sorted(dependencies), 1, shown, prefix,
                              Append(path, package_name), lasts, level,
                              fuel)

\* for i, dep in enumerate(sorted_deps), from the k-th dep on
AsciiTreeLoop(g, sorted_deps, k, shown, prefix, path, lasts, level, fuel) ==
    IF k > Len(sorted_deps)
    THEN <<>>
    ELSE LET dep == sorted_deps[k]
             is_last == k = Len(sorted_deps)
             new_prefix == prefix \o (IF is_last THEN Blank ELSE Pipe)
             connector == IF is_last THEN Elbow ELSE Tee
         IN  PrintAsciiTree(g, dep, shown, new_prefix, prefix \o connector,
                            path, Append(lasts, is_last), level + 1,
                            fuel - 1)
             \o AsciiTreeLoop(g, sorted_deps, k + 1, shown, prefix, path,
                              lasts, level, fuel)

\* RenderTree: the tree lines print_dependency_graph prints for a graph
RenderTree(g, root, ascii_tree) ==
    IF root \notin DOMAIN g
    THEN <<>>
    ELSE IF ascii_tree
    THEN PrintAsciiTree(g, root, {}, <<>>, <<>>, <<>>, <<>>, 1,
                        MaxRenderDepth)
    ELSE PrintSimpleList(g, root, 0, {}, <<>>, 1, MaxRenderDepth)

\* print_dependency_graph, called by run_stage3 after the build; the header
\* and the rules around the tree are not kept in `output`
print_dependency_graph ==
    /\ pc = "done"
    /\ output' = RenderTree(dependency_graph, config.package,
                            config.ascii_tree)
    /\ pc' = "printed"
    /\ UNCHANGED <<source, config, visited_packages, dependency_graph,
                   reverse_dependency_graph, stack, all_dependencies,
                   cycle_log, filter_log, fetch_log, reverse_deps, error>>

\* find_reverse_dependencies: the cached entry, else a scan of the test file
find_reverse_dependencies(target_package) ==
    IF target_package \in DOMAIN reverse_dependency_graph
    THEN reverse_dependency_graph[target_package]
    ELSE IF config.test_mode
         THEN { pkg \in DOMAIN source : target_package \in SetOf(source[pkg]) }
         ELSE {}

\* print_reverse_dependencies for a target package, after the build
print_reverse_dependencies ==
    /\ pc = "printed"
    /\ \E target_package \in DOMAIN source :
          reverse_deps' = find_reverse_dependencies(target_package)
    /\ pc' = "looked"
    /\ UNCHANGED <<source, config, visited_packages, dependency_graph,
                   reverse_dependency_graph, stack, all_dependencies,
                   cycle_log, filter_log, fetch_log, error, output>>

Next ==
    \/ run_stage3
    \/ Enter
    \/ Recurse
    \/ Skip
    \/ Finish
    \/ print_dependency_graph
    \/ print_reverse_dependencies

Spec == Init /\ [][Next]_vars

\* the steps of the build: a running build always takes its next step
BuildStep ==
    \/ run_stage3
    \/ Enter
    \/ Recurse
    \/ Skip
    \/ Finish

FairSpec == Spec /\ WF_vars(BuildStep)

\* the runs in which a call of the source may raise
NextFail ==
    \/ Next
    \/ SourceFails

SpecFail == Init /\ [][NextFail]_vars

\* the renderer on any graph over three names, built by this builder or not
RenderNames == {A, B, C}

InitRender ==
    /\ \E K \in SUBSET RenderNames :
          dependency_graph \in [K -> SUBSET RenderNames]
    /\ source = [p \in RenderNames |-> <<>>]
    /\ config \in [package : RenderNames, filter_substring : {NoFilter},
                   test_mode : {TRUE}, ascii_tree : BOOLEAN]
    /\ visited_packages = {}
    /\ reverse_dependency_graph = EmptyDict
    /\ stack = <<>>
    /\ all_dependencies = {}
    /\ cycle_log = <<>>
    /\ filter_log = <<>>
    /\ fetch_log = <<>>
    /\ reverse_deps = {}
    /\ error = NoError
    /\ output = <<>>
    /\ pc = "done"

NextRender == print_dependency_graph

SpecRender == InitRender /\ [][NextRender]_vars

----------------------------------------------------------------------------
(* The builder as a function of its inputs: the same code run to the end  *)
(* on a given source, used to compare builds over different sources.      *)

RECURSIVE BuildDfs(_, _, _, _, _)
RECURSIVE BuildLoop(_, _, _, _, _, _, _, _)

\* st = [dg, rg, visited, cycles, fetched]; the result is [st, ret]
BuildDfs(src, filter_substring, st, package_name, current_path) ==
    LET case == EntryCase(package_name, current_path, filter_substring, st.dg)
    IN
    IF case = "cycle"
    THEN [st  |-> [st EXCEPT !.cycles =
                      Append(@, Append(current_path, package_name))],
          ret |-> {}]
    ELSE IF case = "filtered"
    THEN [st |-> st, ret |-> {}]
    ELSE IF case = "cached"
    THEN [st |-> st, ret |-> st.dg[package_name]]
    ELSE LET dependencies == DirectDependencies(src, package_name)
             st1 == [st EXCEPT
                        !.fetched = Append(@, package_name),
                        !.dg = Put(@, package_name, SetOf(dependencies)),
                        !.rg = RecordReverse(@, dependencies, package_name)]
             r == BuildLoop(src, filter_substring, st1, package_name,
                            Append(current_path, package_name),
                            dependencies, 1, InitialAll(dependencies))
         IN  [st  |-> [r.st EXCEPT !.dg = Put(@, package_name, r.ret)],
              ret |-> r.ret]

BuildLoop(src, filter_substring, st, package_name, new_path, dependencies, i, all) ==
    IF i > Len(dependencies)
    THEN [st |-> st, ret |-> all]
    ELSE LET dep == dependencies[i]
         IN  IF dep \in st.visited
             THEN BuildLoop(src, filter_substring, st, package_name,
                            new_path, dependencies, i + 1, all)
             ELSE LET c == BuildDfs(src, filter_substring,
                                    [st EXCEPT !.visited = @ \cup {dep}],
                                    dep, new_path)
                  IN  BuildLoop(src, filter_substring, c.st, package_name,
                                new_path, dependencies, i + 1,
                                all \cup c.ret)

\* run_stage3 on a given source: the state after the build from empty state
BuildGraph(src, package_name, filter_substring) ==
    BuildDfs(src, filter_substring,
             [dg |-> EmptyDict, rg |-> EmptyDict, visited |-> {},
              cycles |-> <<>>, fetched |-> <<>>],
             package_name, <<>>).st

\* the stepwise build ends in the state the function computes
BuildAgrees ==
    pc = "done" =>
        LET b == BuildGraph(source, config.package, config.filter_substring)
        IN  /\ b.dg = dependency_graph
            /\ b.rg = reverse_dependency_graph
            /\ b.visited = visited_packages
            /\ b.cycles = cycle_log
            /\ b.fetched = fetch_log

----------------------------------------------------------------------------
(* Vocabulary of the properties *)

Names == DOMAIN source

Done == pc \in {"done", "printed", "looked"}

Direct(p) == SetOf(DirectDependencies(source, p))

\* the name p has the non-empty filter string as a contiguous part
HasFilter(p) ==
    /\ config.filter_substring # <<>>
    /\ HasPart(p, config.filter_substring)

RootFiltered == HasFilter(config.package)

\* one more hop from the packages of S that are expanded (not filtered)
ReachStep(S) ==
    S \cup UNION { Direct(q) :
                     q \in { x \in S : ~HasFilter(x) } }

RECURSIVE ReachIter(_, _)
ReachIter(S, k) == IF k = 0 THEN S ELSE ReachIter(ReachStep(S), k - 1)

\* the packages reachable from p by one or more direct-dependency edges,
\* filtered packages not being expanded
Reach(p) == ReachIter(Direct(p), Cardinality(Names))

Perms(seq) ==
    { s \in [1..Len(seq) -> SetOf(seq)] :
        \A i, j \in 1..Len(seq) : i # j => s[i] # s[j] }

\* the sources that give every package the same set of direct dependencies
Reorderings(src) ==
    { s2 \in [DOMAIN src -> UNION { Perms(src[p]) : p \in DOMAIN src }] :
        \A p \in DOMAIN src : s2[p] \in Perms(src[p]) }

NoDuplicates(seq) == \A i, j \in 1..Len(seq) : i # j => seq[i] # seq[j]

\* the cyclic dependency paths from the root: a path of distinct expanded
\* packages from the root, closed by an edge back to a package on it
CyclicPaths ==
    { s \in UNION { [1..n -> Names] : n \in 2..(Cardinality(Names) + 1) } :
        /\ s[1] = config.package
        /\ NoDuplicates(SubSeq(s, 1, Len(s) - 1))
        /\ \A i \in 1..(Len(s) - 1) :
              /\ ~HasFilter(s[i])
              /\ s[i + 1] \in Direct(s[i])
        /\ \E i \in 1..(Len(s) - 1) : s[i] = s[Len(s)] }

\* the top call has just been entered on a package of its own ancestor path
CycleReached ==
    /\ pc = "build"
    /\ stack # <<>>
    /\ Top.at = "enter"
    /\ Top.package_name \in SetOf(Top.current_path)

Parent == Top.current_path[Len(Top.current_path)]

----------------------------------------------------------------------------
(* C1: after a build from empty state that returned normally with the     *)
(* root not filtered, every ForwardGraph entry is the complete transitive  *)
(* dependency set of its package.  The code skips a dependency that is     *)
(* already in visited_packages without collecting its set.                 *)
C1_EveryEntryComplete ==
    (Done /\ ~RootFiltered) =>
        \A p \in DOMAIN dependency_graph : dependency_graph[p] = Reach(p)

(* C2: two sources with the same direct-dependency sets in different       *)
(* orders build identical ForwardGraph and ReverseGraph.                   *)
C2_OrderIndependent ==
    Done =>
        \A src2 \in Reorderings(source) :
            LET b == BuildGraph(src2, config.package,
                                config.filter_substring)
            IN  /\ b.dg = dependency_graph
                /\ b.rg = reverse_dependency_graph

SourceAB == [p \in {A, B, C} |->
                IF p = A THEN <<B>> ELSE IF p = B THEN <<A>> ELSE <<>>]

BuiltAB ==
    /\ source = SourceAB
    /\ config.package = A
    /\ config.filter_substring = NoFilter
    /\ Done

(* C3 as stated: the edge that closes a cycle is in neither graph; for     *)
(* A->B, B->A built from A, ForwardGraph[B] does not contain A and         *)
(* ReverseGraph does not record B as a dependent of A.                     *)
C3_CyclicEdgeInNeitherGraph ==
    /\ CycleReached =>
          /\ Top.package_name \notin dependency_graph[Parent]
          /\ ~(/\ Top.package_name \in DOMAIN reverse_dependency_graph
               /\ Parent \in reverse_dependency_graph[Top.package_name])
    /\ BuiltAB =>
          /\ A \notin dependency_graph[B]
          /\ ~(/\ A \in DOMAIN reverse_dependency_graph
               /\ B \in reverse_dependency_graph[A])

(* C3 amended: the call that detects the cycle changes neither graph, but  *)
(* the closing edge is a direct edge and is already in both graphs since   *)
(* its origin was fetched; for A->B, B->A built from A the build ends with *)
(* ForwardGraph[B] = {A} and ReverseGraph[A] = {B}.                        *)
C3_CyclicEdgeIsDirectEdge ==
    /\ [](CycleReached =>
            /\ Top.package_name \in dependency_graph[Parent]
            /\ Top.package_name \in DOMAIN reverse_dependency_graph
            /\ Parent \in reverse_dependency_graph[Top.package_name])
    /\ [](BuiltAB =>
            /\ dependency_graph[B] = {A}
            /\ A \in DOMAIN reverse_dependency_graph
            /\ reverse_dependency_graph[A] = {B})
    /\ [][CycleReached =>
            /\ dependency_graph' = dependency_graph
            /\ reverse_dependency_graph' = reverse_dependency_graph]_vars

C3_Witness == BuiltAB /\ cycle_log = << <<A, B, A>> >>

(* C4: a cycle report is emitted exactly once for each distinct cyclic     *)
(* dependency path reachable from the root.                                *)
C4_EveryCycleReportedOnce ==
    Done => /\ NoDuplicates(cycle_log)
            /\ SetOf(cycle_log) = CyclicPaths

SourceRXY == [p \in {R, X, Y} |->
                 IF p = R THEN <<X>> ELSE IF p = X THEN <<Y>> ELSE <<>>]

BuiltRXY ==
    /\ source = SourceRXY
    /\ config.package = R
    /\ config.filter_substring = <<"X">>
    /\ Done

(* C5 as stated: for R->X, X->Y with filter "X", neither X nor Y is a      *)
(* member of ForwardGraph[R] or a key of either graph.                     *)
C5_FilteredExcludedEntirely ==
    BuiltRXY =>
        /\ X \notin dependency_graph[R]
        /\ Y \notin dependency_graph[R]
        /\ {X, Y} \cap DOMAIN dependency_graph = {}
        /\ {X, Y} \cap DOMAIN reverse_dependency_graph = {}

(* C5 amended: for R->X, X->Y with filter "X", X is not fetched and is not *)
(* a key of ForwardGraph, and Y appears nowhere; X is still a member of    *)
(* ForwardGraph[R] and a key of ReverseGraph: ForwardGraph = {R:{X}} and   *)
(* ReverseGraph = {X:{R}}.                                                 *)
C5_FilteredOnlyMentioned ==
    BuiltRXY =>
        /\ DOMAIN dependency_graph = {R}
        /\ dependency_graph[R] = {X}
        /\ DOMAIN reverse_dependency_graph = {X}
        /\ reverse_dependency_graph[X] = {R}
        /\ fetch_log = <<R>>

C5_Witness == BuiltRXY /\ filter_log = <<X>> /\ pc = "done"
FilteredNames == { p \in Names : HasFilter(p) }

(* C6: with a non-empty filter, a package whose name contains the filter   *)
(* is never fetched, never a key of ForwardGraph, and nothing is explored  *)
(* through it (it is never expanded, never on an ancestor path, never      *)
(* recorded as a dependent); a filtered root leaves both graphs empty and  *)
(* fetches nothing.                                                        *)
C6_FilteredNeverTraversed ==
    config.filter_substring # <<>> =>
        /\ \A p \in FilteredNames :
              /\ p \notin SetOf(fetch_log)
              /\ p \notin DOMAIN dependency_graph
              /\ \A d \in DOMAIN reverse_dependency_graph :
                    p \notin reverse_dependency_graph[d]
              /\ \A k \in 1..Len(stack) :
                    /\ p \notin SetOf(stack[k].current_path)
                    /\ stack[k].package_name = p => stack[k].at = "enter"
        /\ RootFiltered =>
              /\ fetch_log = <<>>
              /\ dependency_graph = EmptyDict
              /\ reverse_dependency_graph = EmptyDict

C6_Witness ==
    /\ pc = "done"
    /\ config.filter_substring = <<"X">>
    /\ config.package = R
    /\ LibX \in dependency_graph[R]
    /\ Direct(LibX) # {}
    /\ filter_log = <<LibX>>

SourceABC == [p \in {A, B, C} |->
                 IF p = A THEN <<B, C>> ELSE IF p = B THEN <<C>> ELSE <<>>]

BuiltABC ==
    /\ source = SourceABC
    /\ config.package = A
    /\ config.filter_substring = NoFilter
    /\ Done

(* C7: for A -> B, C; B -> C; C -> (none) and an empty filter, the build   *)
(* from A ends with ForwardGraph {A:{B,C}, B:{C}, C:{}} and ReverseGraph   *)
(* {B:{A}, C:{A,B}}.                                                       *)
C7_EndToEndGraphs ==
    BuiltABC =>
        /\ DOMAIN dependency_graph = {A, B, C}
        /\ dependency_graph[A] = {B, C}
        /\ dependency_graph[B] = {C}
        /\ dependency_graph[C] = {}
        /\ DOMAIN reverse_dependency_graph = {B, C}
        /\ reverse_dependency_graph[B] = {A}
        /\ reverse_dependency_graph[C] = {A, B}

C7_Witness == BuiltABC /\ pc = "done" /\ fetch_log = <<A, B, C>>

(* C8: for every fetched package p and every direct dependency d the       *)
(* source returned for p, the reverse lookup of d contains p.              *)
C8_ReverseLookupComplete ==
    /\ \A p \in SetOf(fetch_log) :
          \A d \in Direct(p) : p \in find_reverse_dependencies(d)
    /\ pc = "looked" =>
          \E d \in Names :
              /\ reverse_deps = find_reverse_dependencies(d)
              /\ \A p \in SetOf(fetch_log) :
                    d \in Direct(p) => p \in reverse_deps

C8_Witness ==
    /\ pc = "looked"
    /\ Cardinality(reverse_deps) = 2
    /\ reverse_deps \subseteq SetOf(fetch_log)

(* C9: in every state, for every package with a ForwardGraph entry, the    *)
(* direct dependencies the source returned for it are in the entry.        *)
C9_DirectSubsetOfEntry ==
    \A p \in DOMAIN dependency_graph : Direct(p) \subseteq dependency_graph[p]

C9_Witness ==
    /\ pc = "done"
    /\ \E p \in DOMAIN dependency_graph :
          /\ Direct(p) # dependency_graph[p]
          /\ \E d \in Direct(p) : d \in visited_packages /\ d # p
          /\ Cardinality(Direct(p)) = MaxDeps

(* C10: the build terminates for every finite source, cycles and           *)
(* self-dependencies included, and the recursion depth never exceeds the   *)
(* number of distinct package names plus one.                              *)
C10_Terminates ==
    /\ <>(pc = "done")
    /\ [](Len(stack) <= Cardinality(Names) + 1)

C10_Witness ==
    /\ pc = "done"
    /\ stack = <<>>
    /\ config.package \in Direct(config.package)
    /\ \E k \in 1..Len(cycle_log) : Len(cycle_log[k]) = Cardinality(Names) + 1

(* C11: within one build from empty state the source is called at most    *)
(* once for each package name.                                             *)
C11_FetchedAtMostOnce == NoDuplicates(fetch_log)

C11_Witness ==
    /\ pc = "done"
    /\ Len(fetch_log) = 3
    /\ cycle_log # <<>>
    /\ \E d \in DOMAIN reverse_dependency_graph :
          /\ d # config.package
          /\ Cardinality(reverse_dependency_graph[d]) >= 2

\* the top call has just been entered on a package that is on its path or
\* is filtered
TruncatedBranch ==
    /\ pc = "build"
    /\ stack # <<>>
    /\ Top.at = "enter"
    /\ \/ Top.package_name \in SetOf(Top.current_path)
       \/ HasFilter(Top.package_name)

(* C12: a failure of the source aborts the whole build: every enclosing    *)
(* call is left, nothing is fetched or done afterwards, no result is       *)
(* returned or printed; a detected cycle or a filtered package never       *)
(* aborts the build.                                                       *)
C12_FailureAbortsBuild ==
    /\ [](error # NoError =>
            /\ pc = "failed"
            /\ stack = <<>>
            /\ all_dependencies = {}
            /\ output = <<>>
            /\ fetch_log[Len(fetch_log)] = error)
    /\ [][error = NoError]_vars
    /\ [][TruncatedBranch => (pc' # "failed" /\ error' = NoError)]_vars

C12_Witness ==
    /\ pc = "failed"
    /\ Len(fetch_log) = 3
    /\ cycle_log # <<>>
    /\ error # config.package

(* C16: in every state, for every key d of ReverseGraph and every p in     *)
(* ReverseGraph[d], d is a direct dependency the source returned for p.    *)
C16_ReverseOnlyDirect ==
    \A d \in DOMAIN reverse_dependency_graph :
        \A p \in reverse_dependency_graph[d] : d \in Direct(p)

C16_Witness ==
    /\ pc = "done"
    /\ \E p \in DOMAIN dependency_graph :
          \E d \in dependency_graph[p] \ Direct(p) :
              /\ d \in DOMAIN reverse_dependency_graph
              /\ p \notin reverse_dependency_graph[d]

(* C19: after a build from empty state that returned normally with the     *)
(* root not filtered, ForwardGraph[root] is exactly the set of packages    *)
(* reachable from the root through non-filtered packages, whatever the     *)
(* order of the direct dependencies.                                       *)
C19_RootEntryComplete ==
    (Done /\ ~RootFiltered) =>
        /\ config.package \in DOMAIN dependency_graph
        /\ dependency_graph[config.package] = Reach(config.package)

C19_Witness ==
    /\ pc = "done"
    /\ config.package \in DOMAIN dependency_graph
    /\ config.package \in dependency_graph[config.package]
    /\ \E p \in DOMAIN dependency_graph : dependency_graph[p] # Reach(p)

\* one more hop along the edges of the source, filter or not
HopStep(S) == S \cup UNION { Direct(q) : q \in S }

RECURSIVE HopIter(_, _)
HopIter(S, k) == IF k = 0 THEN S ELSE HopIter(HopStep(S), k - 1)

\* the packages p depends on, directly or transitively
DependsOn(p) == HopIter(Direct(p), Cardinality(Names))

(* C20: in every state, every member of a ForwardGraph entry is reachable  *)
(* from the entry's package by one or more direct-dependency edges.        *)
C20_EntriesSound ==
    \A p \in DOMAIN dependency_graph :
        dependency_graph[p] \subseteq DependsOn(p)

C20_Witness ==
    /\ pc = "build"
    /\ \E p \in DOMAIN dependency_graph :
          /\ p # config.package
          /\ dependency_graph[p] \ Direct(p) # {}
          /\ dependency_graph[p] # Names

----------------------------------------------------------------------------
(* Properties of the renderer *)

Texts(lines) == [k \in 1..Len(lines) |-> lines[k].text]

Printed == pc \in {"printed", "looked"}

GraphABC == [p \in {A, B, C} |->
                IF p = A THEN {B, C} ELSE IF p = B THEN {C} ELSE {}]

(* C13: for ForwardGraph {A:{B,C}, B:{C}, C:{}} the list-style render from *)
(* A is exactly 'A', '└── B' after 2 spaces, '└── C' after 4 spaces,       *)
(* '└── C' after 2 spaces: a node at depth k is indented 2*k spaces.       *)
C13_ListRenderExample ==
    (/\ Printed
     /\ dependency_graph = GraphABC
     /\ config.package = A
     /\ ~config.ascii_tree) =>
        Texts(output) = << A,
                           Indent(1) \o Elbow \o B,
                           Indent(2) \o Elbow \o C,
                           Indent(1) \o Elbow \o C >>

(* C14: two builds from the same root whose sources give every package    *)
(* the same direct-dependency sets in different orders render, in either   *)
(* style, to the identical sequence of lines.                              *)
C14_RenderOrderIndependent ==
    Printed =>
        \A src2 \in Reorderings(source) :
            LET b == BuildGraph(src2, config.package,
                                config.filter_substring)
            IN  \A ascii_tree \in BOOLEAN :
                    Texts(RenderTree(b.dg, config.package, ascii_tree))
                    = Texts(RenderTree(dependency_graph, config.package,
                                       ascii_tree))

\* the distinct packages of the graph rendered
Packages ==
    {config.package} \cup DOMAIN dependency_graph
    \cup UNION { dependency_graph[k] : k \in DOMAIN dependency_graph }

\* the rendering ran to its end, expanding no package twice on one path
RenderCompleted ==
    \A k \in 1..Len(output) :
        /\ output[k].note # "cut"
        /\ NoDuplicates(output[k].path)

(* C15 as stated: the rendering of any finite ForwardGraph terminates in   *)
(* both styles, no package is expanded twice along one downward path, and  *)
(* the recursion depth is at most the number of distinct packages.         *)
C15_RenderDepthAtMostPackages ==
    pc = "printed" =>
        /\ RenderCompleted
        /\ \A k \in 1..Len(output) :
              output[k].level <= Cardinality(Packages)

(* C15 amended: the rendering of any finite ForwardGraph terminates in     *)
(* both styles, no package is expanded twice along one downward path, and  *)
(* the recursion depth is at most the number of distinct packages plus     *)
(* one (the call that prints the repeated package as a leaf).              *)
C15_RenderTerminates ==
    pc = "printed" =>
        /\ RenderCompleted
        /\ \A k \in 1..Len(output) :
              output[k].level <= Cardinality(Packages) + 1

C15_Witness ==
    /\ pc = "printed"
    /\ \E p \in DOMAIN dependency_graph : p \in dependency_graph[p]
    /\ \E k \in 1..Len(output) :
          /\ output[k].level = Cardinality(Packages) + 1
          /\ Cardinality(Packages) = 3

IsPrefix(a, b) == Len(a) <= Len(b) /\ SubSeq(b, 1, Len(a)) = a

(* C17: list style, any ForwardGraph: a dependency that is already on the  *)
(* current downward path produces exactly one output line, that line has   *)
(* the "already shown" annotation, and nothing is printed below it.        *)
C17_RepeatedIsOneAnnotatedLine ==
    (pc = "printed" /\ ~config.ascii_tree) =>
        \A k \in 1..Len(output) :
            output[k].name \in SetOf(output[k].path) =>
                /\ output[k].note = "shown"
                /\ \A j \in 1..Len(output) :
                      /\ (/\ output[j].name = output[k].name
                          /\ output[j].path = output[k].path) => j = k
                      /\ ~IsPrefix(Append(output[k].path, output[k].name),
                                   output[j].path)

RECURSIVE Segments(_)
\* one prefix segment per is_last flag
Segments(flags) ==
    IF flags = <<>> THEN <<>>
    ELSE (IF flags[1] THEN Blank ELSE Pipe) \o Segments(Tail(flags))

(* C18: ASCII style, any ForwardGraph: the line of a non-root node is the  *)
(* accumulated prefix (one segment per ancestor below the root), then one  *)
(* connector, then directly the node name, then the "cycle" annotation     *)
(* when the node repeats on the current path.                              *)
C18_AsciiLineShape ==
    (pc = "printed" /\ config.ascii_tree) =>
        \A k \in 1..Len(output) :
            LET l == output[k]
                n == Len(l.lasts)
            IN  n > 0 =>
                    l.text = Segments(SubSeq(l.lasts, 1, n - 1))
                             \o (IF l.lasts[n] THEN Elbow ELSE Tee)
                             \o l.name
                             \o (IF l.note = "cycle" THEN CycleNote
                                 ELSE <<>>)

====
